---- MODULE Spec2Model ----
(***************************************************************************)
(* Model of recreation_monitor.py: a single-threaded script that asks the  *)
(* recreation.gov availability endpoint for one campground and one date,   *)
(* filters the available sites by keyword lists, e-mails the result and    *)
(* sleeps 5 to 10 minutes in a loop.                                       *)
(*                                                                         *)
(* Strings are sequences of one-character strings, so that lower() and the *)
(* substring test of Python's `in` are computed and not assumed.           *)
(* Time is counted in seconds.  Network answers (status, payload, resolved *)
(* names, latency) and the key ring are the environment's choice.          *)
(* Response bodies of the per-site lookup are taken to be JSON objects.    *)
(***************************************************************************)
EXTENDS Integers, Sequences, FiniteSets, TLC

VARIABLES
    WATCH_CAMPS,      \* line 19, a list of keywords
    DISREGARD_CAMPS,  \* line 20, a list of keywords
    EMAIL_ALERTS,     \* line 18
    keyring_data,     \* what keyring.get_password returns: "token" or "none"
    pc,               \* position of main()
    data,             \* response.json()["campsites"] as a list of sites
    idx,              \* position of the for loop of check_availability
    local_sites,      \* available_sites inside check_availability
    available_sites,  \* available_sites of main()
    wait_minutes,     \* line 173
    limiter,          \* state of the @limits decorator: num_calls, elapsed
    recent,           \* ages (s) of the HTTP calls issued in the last period
    cycle,            \* iterations of `while True` entered so far
    fetches,          \* availability requests issued so far
    fetch_failed,     \* the availability request raised RequestException
    lookup_log,       \* <<position in data, resolved name>> per name lookup
    outbox,           \* one record per call of send_email
    crash             \* what ended the process, "" while it runs

vars == <<WATCH_CAMPS, DISREGARD_CAMPS, EMAIL_ALERTS, keyring_data, pc, data,
          idx, local_sites, available_sites, wait_minutes, limiter, recent,
          cycle, fetches, fetch_failed, lookup_log, outbox, crash>>

(***************************************************************************)
(* Bounds of the model.                                                    *)
(***************************************************************************)
MaxSites == 2
MaxBusySites == 6
MaxCycles == 2

Min(a, b) == IF a <= b THEN a ELSE b

\* names a lookup may resolve to: "", "s", "S", "b", "sb", "Sb"
Names == {<<>>, <<"s">>, <<"S">>, <<"b">>, <<"s", "b">>, <<"S", "b">>}

Keywords == {<<>>, <<"s">>, <<"S">>, <<"b">>}

\* keyword lists: empty, one keyword, or the two lower-case keywords
KeywordLists ==
    {<<>>} \cup {<<k>> : k \in Keywords} \cup {<< <<"s">>, <<"b">> >>}

(***************************************************************************)
(* Strings.                                                                *)
(***************************************************************************)
LowerChar(c) == IF c = "S" THEN "s" ELSE IF c = "B" THEN "b" ELSE c

\* str.lower()
Lower(s) == [i \in DOMAIN s |-> LowerChar(s[i])]

\* Python's `k in s` on strings
IsSubstring(k, s) ==
    \E i \in 0..(Len(s) - Len(k)) : SubSeq(s, i + 1, i + Len(k)) = k

(***************************************************************************)
(* Program constants.                                                      *)
(***************************************************************************)
calls == 5
period == 60
MinWait == 5
MaxWait == 10

\* check_datetime_str (line 115) and another day of the same month
CheckKey == "2025-09-26T00:00:00Z"
OtherKey == "2025-09-27T00:00:00Z"

Statuses == {"Available", "Reserved", "available"}

\* site_data["availabilities"]: a dict from timestamps to status strings
AvailabilityMaps ==
    UNION {[K -> Statuses] : K \in SUBSET {CheckKey, OtherKey}}

\* the "campsites" of a response, in iteration order; site ids are 1..n
Payloads(n, maps) ==
    UNION {[1..m -> [availabilities : maps]] : m \in 0..n}

AllPayloads == Payloads(MaxSites, AvailabilityMaps)

\* many sites, each with the checked date only
BusyPayloads == Payloads(MaxBusySites, [{CheckKey} -> Statuses])

Latencies == {0, 30}
Instant == {0}

(***************************************************************************)
(* rate_limited_request, lines 77-80, decorated with the ratelimit         *)
(* package's @limits(calls=5, period=60) under @sleep_and_retry (line 5).  *)
(* limits keeps a counter num_calls and the time last_reset of the last    *)
(* reset, set when the decorator is built: a call first resets both when   *)
(* period - (clock() - last_reset) <= 0, then counts itself, then raises   *)
(* RateLimitException(period_remaining) when the count exceeds calls.      *)
(* sleep_and_retry sleeps period_remaining on that exception and calls     *)
(* again.  elapsed = clock() - last_reset, kept up to period.              *)
(***************************************************************************)
\* time passes: d seconds
Elapse(lim, d) == [lim EXCEPT !.elapsed = Min(@ + d, period)]

Age(ages, d) ==
    LET older == [i \in DOMAIN ages |-> ages[i] + d]
    IN  SelectSeq(older, LAMBDA a : a < period)

\* one call of the wrapper of @limits: the counter is reset only when the
\* period since last_reset has run out, then counted, then compared
Limits(lim) ==
    LET period_remaining == period - lim.elapsed
        reset == IF period_remaining <= 0
                 THEN [num_calls |-> 0, elapsed |-> 0]
                 ELSE lim
        counted == [reset EXCEPT !.num_calls = @ + 1]
    IN  [lim |-> counted,
         raised |-> counted.num_calls > calls,
         period_remaining |-> period_remaining]

\* @sleep_and_retry: on RateLimitException sleep period_remaining and retry.
\* Gives the limiter and the ages of the recent calls when the call is issued.
RECURSIVE SleepAndRetry(_, _)
SleepAndRetry(lim, ages) ==
    LET r == Limits(lim)
    IN  IF r.raised
        THEN SleepAndRetry(Elapse(r.lim, r.period_remaining),
                           Age(ages, r.period_remaining))
        ELSE [lim |-> r.lim, ages |-> Append(ages, 0)]

\* requests.get through the limiter, answered after d seconds
RateLimitedRequest(d) ==
    LET r == SleepAndRetry(limiter, recent)
    IN  /\ limiter' = Elapse(r.lim, d)
        /\ recent' = Age(r.ages, d)

(***************************************************************************)
(* check_availability, lines 100-136.                                      *)
(***************************************************************************)
\* a status lookup that takes any day's entry for the checked one
StatusAnyDay(site_data) ==
    IF \E k \in DOMAIN site_data.availabilities :
           site_data.availabilities[k] = "Available"
    THEN "Available"
    ELSE "None"

\* site_data.get("availabilities", {}).get(check_datetime_str), line 119
Status(site_data) ==
    IF CheckKey \in DOMAIN site_data.availabilities
    THEN site_data.availabilities[CheckKey]
    ELSE "None"

\* `camp in name_lower`, lines 126 and 128
KeywordMatches(camp, site_name) == IsSubstring(camp, Lower(site_name))

\* any(camp in name_lower for camp in camps)
AnyMatches(camps, site_name) ==
    \E i \in DOMAIN camps : KeywordMatches(camps[i], site_name)

\* lines 126-129: TRUE when the site is appended
Keep(site_name) ==
    /\ ~AnyMatches(DISREGARD_CAMPS, site_name)
    /\ (WATCH_CAMPS # <<>> => AnyMatches(WATCH_CAMPS, site_name))

Config == <<WATCH_CAMPS, DISREGARD_CAMPS, EMAIL_ALERTS, keyring_data>>
Loop == <<available_sites, wait_minutes, cycle, outbox>>

\* lines 107-112: the request fails (transport error or raise_for_status)
FetchFails(lat) ==
    /\ pc = "start"
    /\ \E d \in lat : RateLimitedRequest(d)
    /\ fetches' = fetches + 1
    /\ fetch_failed' = TRUE
    /\ available_sites' = <<>>
    /\ cycle' = 1
    /\ pc' = "loop"
    /\ UNCHANGED <<Config, data, idx, local_sites, wait_minutes, lookup_log,
                   outbox, crash>>

\* line 114: the body of a successful response is no JSON; not caught
FetchMalformed(lat) ==
    /\ pc = "start"
    /\ \E d \in lat : RateLimitedRequest(d)
    /\ fetches' = fetches + 1
    /\ pc' = "crashed"
    /\ crash' = "response.json"
    /\ UNCHANGED <<Config, Loop, data, idx, local_sites, fetch_failed,
                   lookup_log>>

\* lines 107-116: the request succeeds
FetchSucceeds(lat, payloads) ==
    /\ pc = "start"
    /\ \E d \in lat : RateLimitedRequest(d)
    /\ fetches' = fetches + 1
    /\ \E p \in payloads : data' = p
    /\ idx' = 1
    /\ local_sites' = <<>>
    /\ pc' = "sites"
    /\ UNCHANGED <<Config, Loop, fetch_failed, lookup_log, crash>>

\* lines 119-121: the site is not "Available" on the checked date
SkipSite ==
    /\ pc = "sites"
    /\ idx <= Len(data)
    /\ Status(data[idx]) # "Available"
    /\ idx' = idx + 1
    /\ UNCHANGED <<Config, Loop, pc, data, local_sites, limiter, recent,
                   fetches, fetch_failed, lookup_log, crash>>

\* lines 123-134 with the name fetch_campsite_name returned
Filter(site_name) ==
    /\ lookup_log' = Append(lookup_log, <<idx, site_name>>)
    /\ local_sites' = IF Keep(site_name)
                      THEN Append(local_sites,
                                  [site_id |-> idx, site_name |-> site_name])
                      ELSE local_sites
    /\ idx' = idx + 1
    /\ UNCHANGED <<Config, Loop, pc, data, fetches, fetch_failed, crash>>

\* lines 83-95: the lookup answers with a name
FetchCampsiteName(lat, names) ==
    /\ pc = "sites"
    /\ idx <= Len(data)
    /\ Status(data[idx]) = "Available"
    /\ \E d \in lat : RateLimitedRequest(d)
    /\ \E n \in names : Filter(n)

\* lines 96-98: the lookup fails, the name is ""
FetchCampsiteNameFails(lat) ==
    /\ pc = "sites"
    /\ idx <= Len(data)
    /\ Status(data[idx]) = "Available"
    /\ \E d \in lat : RateLimitedRequest(d)
    /\ Filter(<<>>)

\* line 136 and the assignment of line 139
Return ==
    /\ pc = "sites"
    /\ idx > Len(data)
    /\ available_sites' = local_sites
    /\ data' = <<>>
    /\ idx' = 1
    /\ local_sites' = <<>>
    /\ lookup_log' = <<>>
    /\ cycle' = 1
    /\ pc' = "loop"
    /\ UNCHANGED <<Config, wait_minutes, limiter, recent, fetches,
                   fetch_failed, outbox, crash>>

(***************************************************************************)
(* send_email and load_creds, lines 44-74.                                 *)
(***************************************************************************)
\* lines 160-168: one <li> per site, with its id and its name
Body(sites) == [i \in DOMAIN sites |-> <<sites[i].site_id, sites[i].site_name>>]

\* lines 46-55: what load_creds does: "ok", or the exception it raises.
\* The refresh of line 52 is a network call and may fail.
LoadCreds == IF keyring_data = "none"
             THEN {"RuntimeError"}
             ELSE {"ok", "RefreshError"}

\* the call of send_email is recorded with what became of it
Record(result) ==
    outbox' = Append(outbox, [cycle |-> cycle, body |-> Body(available_sites),
                              result |-> result])

Notifying == pc = "loop" /\ available_sites # <<>> /\ EMAIL_ALERTS

Check == <<data, idx, local_sites, limiter, recent, fetches, fetch_failed,
           lookup_log>>

\* line 173: random.randint(5, 10)
DrawWait == \E w \in MinWait..MaxWait : wait_minutes' = w

\* lines 60-72: the message is sent
EmailSent ==
    /\ Notifying
    /\ "ok" \in LoadCreds
    /\ Record("sent")
    /\ DrawWait
    /\ pc' = "sleeping"
    /\ UNCHANGED <<Config, Check, available_sites, cycle, crash>>

\* lines 70-74: the send call raises, which is caught and printed
EmailFailed ==
    /\ Notifying
    /\ "ok" \in LoadCreds
    /\ Record("failed")
    /\ DrawWait
    /\ pc' = "sleeping"
    /\ UNCHANGED <<Config, Check, available_sites, cycle, crash>>

\* line 60: load_creds raises; nothing catches it up to main
CredsRaise ==
    /\ Notifying
    /\ \E e \in LoadCreds \ {"ok"} :
          /\ Record("raised")
          /\ crash' = e
    /\ pc' = "crashed"
    /\ UNCHANGED <<Config, Check, available_sites, cycle, wait_minutes>>

\* line 61: build raises; nothing catches it up to main
BuildRaises ==
    /\ Notifying
    /\ "ok" \in LoadCreds
    /\ Record("raised")
    /\ crash' = "BuildError"
    /\ pc' = "crashed"
    /\ UNCHANGED <<Config, Check, available_sites, cycle, wait_minutes>>

(***************************************************************************)
(* main, lines 138-175.                                                    *)
(***************************************************************************)
\* lines 155-159 with EMAIL_ALERTS off: the sites are printed only
AlertsOff ==
    /\ pc = "loop"
    /\ available_sites # <<>>
    /\ ~EMAIL_ALERTS
    /\ DrawWait
    /\ pc' = "sleeping"
    /\ UNCHANGED <<Config, Check, available_sites, cycle, outbox, crash>>

\* lines 170-171
NoSites ==
    /\ pc = "loop"
    /\ available_sites = <<>>
    /\ DrawWait
    /\ pc' = "sleeping"
    /\ UNCHANGED <<Config, Check, available_sites, cycle, outbox, crash>>

\* line 175 returns: the next iteration of `while True` begins
WakeUp ==
    /\ pc = "sleeping"
    /\ cycle < MaxCycles
    /\ limiter' = Elapse(limiter, wait_minutes * 60)
    /\ recent' = Age(recent, wait_minutes * 60)
    /\ cycle' = cycle + 1
    /\ pc' = "loop"
    /\ UNCHANGED <<Config, data, idx, local_sites, available_sites,
                   wait_minutes, fetches, fetch_failed, lookup_log, outbox,
                   crash>>

(***************************************************************************)
(* Specifications.                                                         *)
(***************************************************************************)
\* the state when main() is called; the decorator was built at import
Started ==
    /\ pc = "start"
    /\ data = <<>>
    /\ idx = 1
    /\ local_sites = <<>>
    /\ available_sites = <<>>
    /\ wait_minutes = MinWait
    /\ limiter = [num_calls |-> 0, elapsed |-> 0]
    /\ recent = <<>>
    /\ cycle = 0
    /\ fetches = 0
    /\ fetch_failed = FALSE
    /\ lookup_log = <<>>
    /\ outbox = <<>>
    /\ crash = ""

Init ==
    /\ WATCH_CAMPS \in KeywordLists
    /\ DISREGARD_CAMPS \in KeywordLists
    /\ EMAIL_ALERTS \in BOOLEAN
    /\ keyring_data \in {"token", "none"}
    /\ Started

CheckAvailability(lat, payloads, names) ==
    \/ FetchFails(lat)
    \/ FetchMalformed(lat)
    \/ FetchSucceeds(lat, payloads)
    \/ SkipSite
    \/ FetchCampsiteName(lat, names)
    \/ FetchCampsiteNameFails(lat)
    \/ Return

SendEmail == EmailSent \/ EmailFailed \/ CredsRaise \/ BuildRaises

Next ==
    \/ CheckAvailability(Latencies, AllPayloads, Names)
    \/ SendEmail
    \/ AlertsOff
    \/ NoSites
    \/ WakeUp

Spec == Init /\ [][Next]_vars

\* check_availability alone, under every pair of keyword lists
InitCheck ==
    /\ WATCH_CAMPS \in KeywordLists
    /\ DISREGARD_CAMPS \in KeywordLists
    /\ EMAIL_ALERTS = TRUE
    /\ keyring_data = "token"
    /\ Started

NextCheck == CheckAvailability(Instant, AllPayloads, Names)

SpecCheck == InitCheck /\ [][NextCheck]_vars

\* check_availability on campgrounds with many sites and slow answers
InitLimiter ==
    /\ WATCH_CAMPS = <<>>
    /\ DISREGARD_CAMPS = <<>>
    /\ EMAIL_ALERTS = TRUE
    /\ keyring_data = "token"
    /\ Started

NextLimiter == CheckAvailability(Latencies, BusyPayloads, {<<"s">>})

SpecLimiter == InitLimiter /\ [][NextLimiter]_vars

(***************************************************************************)
(* Properties.                                                             *)
(***************************************************************************)
Range(f) == {f[i] : i \in DOMAIN f}

\* the matching the specification words: both sides lower-cased
CaseInsensitiveMatch(keyword, name) == IsSubstring(Lower(keyword), Lower(name))

Denied(name) ==
    \E i \in DOMAIN DISREGARD_CAMPS :
        CaseInsensitiveMatch(DISREGARD_CAMPS[i], name)

Watched(name) ==
    \E i \in DOMAIN WATCH_CAMPS : CaseInsensitiveMatch(WATCH_CAMPS[i], name)

\* the payload says "Available" at the checked date's own key
ExactlyAvailable(site_data) ==
    /\ CheckKey \in DOMAIN site_data.availabilities
    /\ site_data.availabilities[CheckKey] = "Available"

\* check_availability has gone through all the sites and is about to return
AtReturn == pc = "sites" /\ idx > Len(data)

\* C1: at the decision of every iteration of the loop, an availability
\* request has been issued for that iteration: as many requests as iterations.
C1_RefetchEveryCycle == pc = "loop" => fetches = cycle

\* C2: no site whose resolved name contains a disregard keyword is in the
\* result of check_availability, in main's list or in a notification.
C2_DenyPrecedence ==
    /\ \A j \in DOMAIN local_sites : ~Denied(local_sites[j].site_name)
    /\ \A j \in DOMAIN available_sites : ~Denied(available_sites[j].site_name)
    /\ \A m \in DOMAIN outbox :
           \A j \in DOMAIN outbox[m].body : ~Denied(outbox[m].body[j][2])

\* the available sites, in input order, that are not denied and, when the
\* watch list is not empty, match a watch keyword
C3_Expected ==
    LET reportable(e) ==
            /\ ExactlyAvailable(data[e[1]])
            /\ ~Denied(e[2])
            /\ (WATCH_CAMPS # <<>> => Watched(e[2]))
        kept == SelectSeq(lookup_log, reportable)
    IN  [j \in DOMAIN kept |-> [site_id |-> kept[j][1], site_name |-> kept[j][2]]]

\* C3: the result of check_availability is, in input order, exactly the
\* available sites that are not denied and, when the watch list is not empty,
\* match a watch keyword.
C3_AllowListSemantics == AtReturn => local_sites = C3_Expected

\* C4: a keyword matches a name exactly when the lower-cased keyword is a
\* substring of the lower-cased name, for every keyword of either list and
\* every name a lookup resolved.
C4_CaseInsensitiveBothSides ==
    \A e \in Range(lookup_log) :
        \A k \in Range(WATCH_CAMPS) \cup Range(DISREGARD_CAMPS) :
            KeywordMatches(k, e[2]) <=> CaseInsensitiveMatch(k, e[2])

\* C5: no call of send_email ends with an exception raised into the loop.
C5_SendFailureContained ==
    \A m \in DOMAIN outbox : outbox[m].result # "raised"

\* C6: after a failed availability request the result is empty, nothing is
\* sent, the loop sleeps 5 to 10 minutes, the process lives, and the next
\* iteration polls again.
C6_FetchFailureNonFatal ==
    fetch_failed =>
        /\ available_sites = <<>>
        /\ outbox = <<>>
        /\ pc # "crashed"
        /\ (pc = "sleeping" => wait_minutes \in MinWait..MaxWait)
        /\ (pc = "loop" /\ cycle > 1 => fetches > 1)

\* what a step that leaves the decision of an iteration has to do
C7_Step ==
    pc = "loop" =>
        /\ pc' = "sleeping"
        /\ wait_minutes' \in MinWait..MaxWait
        /\ IF available_sites # <<>> /\ EMAIL_ALERTS
           THEN /\ Len(outbox') = Len(outbox) + 1
                /\ SubSeq(outbox', 1, Len(outbox)) = outbox
                /\ outbox'[Len(outbox')].cycle = cycle
                /\ outbox'[Len(outbox')].body =
                       [j \in DOMAIN available_sites |->
                           <<available_sites[j].site_id,
                             available_sites[j].site_name>>]
           ELSE outbox' = outbox

\* C7: the step that leaves the decision of an iteration sends one e-mail
\* listing the filtered sites exactly when there are sites and alerts are
\* on, and always leads to Sleeping with a wait of 5 to 10 minutes.
C7_NotifyGuard == [][C7_Step]_vars

\* C8: never more than 5 HTTP calls issued within the trailing 60 seconds.
C8_TrailingWindow == Len(recent) <= calls

\* C9: a site is in the result, and a name lookup is issued for it, only if
\* its availabilities hold exactly "Available" at the checked date's key.
C9_ExactTimestamp ==
    pc = "sites" =>
        /\ \A j \in DOMAIN local_sites :
               ExactlyAvailable(data[local_sites[j].site_id])
        /\ \A e \in Range(lookup_log) : ExactlyAvailable(data[e[1]])

\* C9 witness: a returned result that holds the one site available on the
\* checked date and not the site available on another day only.
C9_Witness ==
    /\ AtReturn
    /\ Len(data) = 2
    /\ ~ExactlyAvailable(data[1])
    /\ OtherKey \in DOMAIN data[1].availabilities
    /\ data[1].availabilities[OtherKey] = "Available"
    /\ ExactlyAvailable(data[2])
    /\ Len(local_sites) = 1
    /\ local_sites[1].site_id = 2
    /\ Len(lookup_log) = 1

\* C10: with no credentials in the key ring the process does not get to the
\* first availability request or into the loop, and once the loop has been
\* entered nothing ends the process.
C10_OnlyStartupFatal ==
    /\ (keyring_data = "none" => fetches = 0 /\ cycle = 0)
    /\ (cycle >= 1 => pc # "crashed")

====
